---- MODULE Spec2Model ----
(***************************************************************************)
(* vite-plugin-aws-lambda: the plugin hooks (config, configResolved,       *)
(* closeBundle), the configuration-default provider getConfigDefaults and *)
(* the archiver zipDir, over an abstract filesystem.                      *)
(*                                                                         *)
(* A path is a sequence of segments; a segment is the sequence of its     *)
(* dot-separated parts ("a.txt" is <<"a","txt">>, ".." is <<"..">>).      *)
(* An absolute path is a sequence of segments from the filesystem root.   *)
(***************************************************************************)
EXTENDS Naturals, Sequences, FiniteSets, Bags, TLC

VARIABLES
    cfg,            \* the user's vite config and the plugin options (fixed per run)
    tree,           \* what the bundler writes into outDir on every build
    disk,           \* the filesystem: absolute path -> node
    clock,          \* the filesystem's modification-time clock
    builds,         \* number of builds started so far
    phase,          \* position in the hook sequence of the current build
    enabled,        \* plugin closure: let enabled
    root,           \* plugin closure: let root
    absInDir,       \* plugin closure: let absInDir
    absOutFilename, \* plugin closure: let absOutFilename
    configReturn,   \* what the config hook returned in this build
    rmCalls,        \* fs.rm calls of this build (paths)
    zipCalls,       \* zipDir invocations of this build ([inDir, out])
    logs,           \* this.info messages of this build (a bag)
    zpc,            \* zipDir: position
    zIn,            \* zipDir: parameter inDir
    zOut,           \* zipDir: parameter outFilename
    pending,        \* zipDir: entries the directory iterator has not yielded yet
    listing,        \* zipDir: every entry the traversal enumerates (fixed at open)
    zip,            \* zipDir: the JSZip instance's members
    handle,         \* zipDir: the fs.Dir handle: none | open | closed
    closeAttempts,  \* zipDir: number of entries.close() calls
    err,            \* zipDir: the error that is propagating ("none" if none)
    raised,         \* zipDir: every error raised during this call
    swallowed,      \* zipDir: every error caught and not rethrown
    onFileCalls,    \* zipDir: the onFile callback's invocations (a bag of relative paths)
    skipped,        \* zipDir: entries skipped by the self-reference guard
    disk0,          \* the filesystem as it was when zipDir was called
    createdDirs,    \* directories zipDir's mkdir has created so far
    history,        \* the archives zipDir has written so far, oldest first
    gLib,           \* getConfigDefaults: argument lib
    gRollup,        \* getConfigDefaults: argument rollupOptions
    gLib0,          \* the lib object as the caller built it
    gOut,           \* getConfigDefaults: the returned configuration
    gApplied        \* results of the bundler applying the returned rules

pluginVars == <<enabled, root, absInDir, absOutFilename>>
hookVars == <<configReturn, rmCalls, zipCalls, logs>>
zipVars == <<zpc, zIn, zOut, pending, listing, zip, handle, closeAttempts, err,
             raised, swallowed, onFileCalls, skipped, disk0>>
envVars == <<cfg, tree, disk, clock, builds, phase, createdDirs, history>>
defaultsVars == <<gLib, gRollup, gLib0, gOut, gApplied>>
vars == <<pluginVars, hookVars, zipVars, envVars, defaultsVars>>

\* Number of builds (plugin instantiations with the full hook sequence) explored.
MaxBuilds == 2

(***************************************************************************)
(* Optional values: JavaScript's undefined is [set |-> FALSE].             *)
(***************************************************************************)
Some(v) == [set |-> TRUE, v |-> v]
NoneOf(d) == [set |-> FALSE, v |-> d]

\* a ?? b
Coalesce(x, d) == IF x.set THEN x.v ELSE d

(***************************************************************************)
(* node:path                                                               *)
(***************************************************************************)
DotDot == <<"..">>
Rel(segs) == [abs |-> FALSE, segs |-> segs]
Abs(segs) == [abs |-> TRUE, segs |-> segs]

RECURSIVE Norm(_, _)
Norm(segs, acc) ==
    IF segs = <<>> THEN acc
    ELSE IF Head(segs) = DotDot
         THEN Norm(Tail(segs), IF acc = <<>> THEN <<>> ELSE SubSeq(acc, 1, Len(acc) - 1))
         ELSE Norm(Tail(segs), Append(acc, Head(segs)))

\* path.resolve(a, b, c): right to left until an absolute path is built; a is absolute.
PathResolve(a, b, c) ==
    IF c.abs THEN Norm(c.segs, <<>>)
    ELSE IF b.abs THEN Norm(b.segs \o c.segs, <<>>)
    ELSE Norm(a.segs \o b.segs \o c.segs, <<>>)

\* path.basename(p)
PathBasename(p) == p.segs[Len(p.segs)]

\* path.dirname(p) of an absolute path
PathDirname(p) == IF p = <<>> THEN <<>> ELSE SubSeq(p, 1, Len(p) - 1)

RECURSIVE CommonLen(_, _)
CommonLen(a, b) ==
    IF a = <<>> \/ b = <<>> \/ Head(a) # Head(b) THEN 0
    ELSE 1 + CommonLen(Tail(a), Tail(b))

\* mutant: the entry's name instead of its path relative to from
PathRelativeBasename(from, to) == <<to[Len(to)]>>

\* path.relative(from, to) of two absolute paths
PathRelative(from, to) ==
    LET n == CommonLen(from, to)
    IN  [i \in 1..(Len(from) - n) |-> DotDot] \o SubSeq(to, n + 1, Len(to))

IsPrefix(a, b) == Len(a) <= Len(b) /\ SubSeq(b, 1, Len(a)) = a
IsInside(dir, p) == IsPrefix(dir, p) /\ p # dir

(***************************************************************************)
(* The filesystem                                                          *)
(***************************************************************************)
NullContent == [t |-> "null", v |-> "", z |-> {}]
Raw(s) == [t |-> "raw", v |-> s, z |-> {}]
Partial == [t |-> "partial", v |-> "", z |-> {}]

DirNode(m) == [kind |-> "dir", content |-> NullContent, mtime |-> m]
FileNode(c, m) == [kind |-> "file", content |-> c, mtime |-> m]

Exists(d, p) == p \in DOMAIN d
IsDir(d, p) == Exists(d, p) /\ d[p].kind = "dir"
Ancestors(p) == {SubSeq(p, 1, i) : i \in 1..(Len(p) - 1)}
Descendants(d, dir) == {p \in DOMAIN d : IsInside(dir, p)}
Restrict(d, keep) == [p \in keep |-> d[p]]

\* the directories fs.mkdir(p, {recursive: true}) has to create
MissingDirs(d, p) == {q \in Ancestors(p) \cup {p} : ~Exists(d, q)}

\* fs.mkdir(p, {recursive: true}) at time now
Mkdirp(d, p, now) ==
    LET new == MissingDirs(d, p)
        touched == {PathDirname(q) : q \in new} \cap DOMAIN d
    IN  [q \in new |-> DirNode(now)]
        @@ [q \in touched |-> [d[q] EXCEPT !.mtime = now]]
        @@ d

\* fs.writeFile(p, data) at time now; creating a file updates its directory's mtime
WriteFileAt(d, p, data, now) ==
    LET par == PathDirname(p)
        touched == IF ~Exists(d, p) /\ Exists(d, par) THEN {par} ELSE {}
    IN  (p :> FileNode(data, now))
        @@ [q \in touched |-> [d[q] EXCEPT !.mtime = now]]
        @@ d

\* fs.rm(p, {force: true, recursive: true})
RmRf(d, p) == Restrict(d, {q \in DOMAIN d : ~IsPrefix(p, q)})

(***************************************************************************)
(* getConfigDefaults                                                       *)
(***************************************************************************)
Formats == {"es", "esm", "module", "cjs", "umd", "iife"}
Names == {"index", "handler"}

\* the host runtime's built-in module registry, and the specifiers tried on it
BuiltinModules == {"fs", "path", "node:fs", "node:test"}
ModuleSpecifiers == BuiltinModules \cup {"test", "fs-extra", "lodash", "node:lodash"}

\* module.isBuiltin
IsBuiltin(id) == id \in BuiltinModules

\* mutant: only the format es gets .mjs
DefaultFileNameEsOnly(format, name) ==
    IF format = "es" THEN <<name, "mjs">> ELSE <<name, "js">>

\* (format, name) => format is es, esm or module ? `${name}.mjs` : `${name}.js`
DefaultFileName(format, name) ==
    IF format = "es" \/ format = "esm" \/ format = "module"
    THEN <<name, "mjs">>
    ELSE <<name, "js">>

\* values a fileName or an external option can hold; "default" is the plugin's own
DefaultFileNameRule == [k |-> "default", id |-> ""]
IsBuiltinPredicate == [k |-> "isBuiltin", id |-> ""]
DefaultFormats == <<"es">>

\* rollupOptions?.external
ExternalOf(rollupOptions) ==
    IF rollupOptions.set THEN rollupOptions.v.external ELSE NoneOf(IsBuiltinPredicate)

GetConfigDefaults(lib, rollupOptions) ==
    [build |->
        [lib |-> [entry |-> lib.entry,
                  formats |-> Coalesce(lib.formats, DefaultFormats),
                  fileName |-> Coalesce(lib.fileName, DefaultFileNameRule)],
         rollupOptions |->
            [external |-> Coalesce(ExternalOf(rollupOptions), IsBuiltinPredicate)]]]

\* the bundler calling a returned fileName rule
ApplyFileName(rule, format, name) ==
    IF rule.k = "default" THEN DefaultFileName(format, name) ELSE <<name, rule.id>>

\* the bundler asking a returned external option about a module specifier
ApplyExternal(ext, id) ==
    IF ext.k = "isBuiltin" THEN IsBuiltin(id) ELSE id = ext.id

(***************************************************************************)
(* Inputs                                                                  *)
(***************************************************************************)
EntryOptions == {NoneOf(""), Some(""), Some("src/index.ts")}
FormatsOptions == {NoneOf(<<>>), Some(<<>>), Some(<<"cjs">>), Some(<<"cjs", "es">>)}
FileNameOptions == {NoneOf(DefaultFileNameRule),
                    Some([k |-> "string", id |-> ""]),
                    Some([k |-> "fn", id |-> "cjs"])}
ExternalOptions == {NoneOf(IsBuiltinPredicate),
                    Some([k |-> "array", id |-> "lodash"]),
                    Some([k |-> "fn", id |-> "fs"])}
RollupOptions == {NoneOf([external |-> NoneOf(IsBuiltinPredicate)])}
                 \cup {Some([external |-> e]) : e \in ExternalOptions}

OnlyEntry(e) == [entry |-> e, formats |-> NoneOf(<<>>), fileName |-> NoneOf(DefaultFileNameRule)]

\* config({ build }): build undefined, build.lib undefined, false, or an object
BuildOptions ==
    {[k |-> k, lib |-> OnlyEntry(NoneOf(""))] : k \in {"nobuild", "undef", "false"}}
    \cup {[k |-> "obj", lib |-> OnlyEntry(e)] : e \in EntryOptions}

RootPath == Abs(<< <<"pkg">>, <<"src">> >>)
OutDirOptions == {Rel(<< <<"dist">> >>), Rel(<< DotDot, <<"dist">>, <<"lambda">> >>)}
OutFilenameOptions ==
    {[k |-> "false", p |-> Rel(<<>>)],
     [k |-> "undefined", p |-> Rel(<<>>)],
     [k |-> "string", p |-> Rel(<< <<"foo", "zip">> >>)],
     [k |-> "string", p |-> Rel(<< <<"b">>, <<"foo", "zip">> >>)],
     [k |-> "string", p |-> Abs(<< <<"tmp">>, <<"out", "zip">> >>)]}
EmptyOutDirOptions == {"true", "false", "unset"}

Configs ==
    [outFilename : OutFilenameOptions, build : BuildOptions, root : {RootPath},
     outDir : OutDirOptions, emptyOutDir : EmptyOutDirOptions]

\* build outputs, relative to outDir
Entry(rel, kind, content) == [rel |-> rel, kind |-> kind, content |-> content]
Trees ==
    {{},
     {Entry(<< <<"index", "mjs">> >>, "file", Raw("code"))},
     {Entry(<< <<"a", "txt">> >>, "file", Raw("hello")),
      Entry(<< <<"b">> >>, "dir", NullContent),
      Entry(<< <<"b">>, <<"c", "txt">> >>, "file", Raw("world"))},
     {Entry(<< <<"index", "mjs">> >>, "file", Raw("code")),
      Entry(<< <<"b">> >>, "dir", NullContent),
      Entry(<< <<"b">>, <<"lnk">> >>, "other", NullContent)}}

\* what earlier builds may have left behind
StaleOptions == SUBSET {"dest", "other"}

(***************************************************************************)
(* The plugin                                                              *)
(***************************************************************************)
\* `../${path.basename(outDir)}.zip`
DefaultOutFilename(outDir) == Rel(<<DotDot, Append(PathBasename(outDir), "zip")>>)

\* mutant: only undefined counts as missing
FalsyOnlyUndefined(x) == ~x.set

\* !x for a string | undefined
Falsy(x) == ~x.set \/ x.v = ""

\* build?.lib === false || !build?.lib?.entry
NoLibEntry(build) ==
    build.k = "false" \/ (IF build.k = "obj" THEN Falsy(build.lib.entry) ELSE TRUE)

\* mutant: false is treated like an unset outFilename
ZipDisabledNever(outFilename) == FALSE

\* outFilename === false
ZipDisabled(outFilename) == outFilename.k = "false"

\* path.resolve(root, outDir, outFilename ?? `../${basename(outDir)}.zip`)
ResolveOutFilename(c) ==
    PathResolve(c.root, c.outDir,
                IF c.outFilename.k = "string" THEN c.outFilename.p
                ELSE DefaultOutFilename(c.outDir))

\* path.resolve(root, outDir)
ResolveInDir(c) == PathResolve(c.root, c.outDir, Rel(<<>>))

Undefined == [k |-> "undefined", p |-> <<>>]
False == [k |-> "false", p |-> <<>>]
Str(p) == [k |-> "string", p |-> p]

Info(m, arg) == [m |-> m, arg |-> arg]

\* the state of a zipDir call that has not started
ZipIdle ==
    /\ zpc = "idle" /\ zIn = <<>> /\ zOut = <<>> /\ pending = {} /\ listing = {}
    /\ zip = {} /\ handle = "none" /\ closeAttempts = 0 /\ err = "none"
    /\ raised = {} /\ swallowed = {} /\ onFileCalls = EmptyBag /\ skipped = {}
    /\ disk0 = << >>

\* a fresh plugin instance: let enabled = true; the other variables undefined
PluginNew ==
    /\ enabled = TRUE /\ root = NoneOf(<<>>) /\ absInDir = NoneOf(<<>>)
    /\ absOutFilename = Undefined
    /\ configReturn = NoneOf(<<>>) /\ rmCalls = <<>> /\ zipCalls = <<>>
    /\ logs = EmptyBag

DefaultsIdle ==
    /\ gLib = OnlyEntry(NoneOf("")) /\ gLib0 = OnlyEntry(NoneOf(""))
    /\ gRollup = NoneOf([external |-> NoneOf(IsBuiltinPredicate)])
    /\ gOut = NoneOf(<<>>) /\ gApplied = [files |-> {}, externals |-> {}]

\* the filesystem before the first build
InitialDisk(c, stale) ==
    LET dest == ResolveOutFilename(c)
        old == Append(ResolveInDir(c), <<"old", "zip">>)
        files == (IF "dest" \in stale /\ ~ZipDisabled(c.outFilename) THEN {dest} ELSE {})
                 \cup (IF "other" \in stale THEN {old} ELSE {})
        dirs == UNION {Ancestors(f) : f \in files}
                \cup Ancestors(c.root.segs) \cup {c.root.segs}
    IN  [f \in files |-> FileNode(Raw("old"), 0)] @@ [d \in dirs |-> DirNode(0)]

Init ==
    /\ cfg \in Configs
    /\ tree \in Trees
    /\ \E stale \in StaleOptions : disk = InitialDisk(cfg, stale)
    /\ clock = 0 /\ builds = 1 /\ phase = "new"
    /\ createdDirs = {} /\ history = <<>>
    /\ PluginNew /\ ZipIdle /\ DefaultsIdle

\* async config({ build })
Config ==
    /\ phase = "new"
    /\ phase' = "configured"
    /\ IF NoLibEntry(cfg.build)
       THEN enabled' = FALSE /\ configReturn' = NoneOf(<<>>)
       ELSE enabled' = enabled
            /\ configReturn' = Some(GetConfigDefaults(cfg.build.lib,
                                        NoneOf([external |-> NoneOf(IsBuiltinPredicate)])))
    /\ UNCHANGED <<root, absInDir, absOutFilename, rmCalls, zipCalls, logs>>
    /\ UNCHANGED <<zipVars, cfg, tree, disk, clock, builds, createdDirs, history, defaultsVars>>

\* async configResolved(config)
ConfigResolved ==
    /\ phase = "configured"
    /\ phase' = "resolved"
    /\ IF ~enabled
       THEN UNCHANGED <<root, absInDir, absOutFilename, rmCalls, disk>>
       ELSE /\ root' = Some(cfg.root.segs)
            /\ absInDir' = Some(ResolveInDir(cfg))
            /\ IF ZipDisabled(cfg.outFilename)
               THEN absOutFilename' = False /\ UNCHANGED <<rmCalls, disk>>
               ELSE /\ absOutFilename' = Str(ResolveOutFilename(cfg))
                    /\ IF cfg.emptyOutDir # "false"
                       THEN /\ rmCalls' = Append(rmCalls, ResolveOutFilename(cfg))
                            /\ disk' = RmRf(disk, ResolveOutFilename(cfg))
                       ELSE UNCHANGED <<rmCalls, disk>>
    /\ UNCHANGED <<enabled, configReturn, zipCalls, logs>>
    /\ UNCHANGED <<zipVars, cfg, tree, clock, builds, createdDirs, history, defaultsVars>>

\* part_001: async configResolved({ root, build })
ConfigResolvedV1 ==
    /\ phase = "configured"
    /\ phase' = "resolved"
    /\ IF ~enabled
       THEN UNCHANGED <<absInDir, absOutFilename, rmCalls, disk>>
       ELSE /\ absInDir' = Some(ResolveInDir(cfg))
            /\ IF ZipDisabled(cfg.outFilename)
               THEN absOutFilename' = False /\ UNCHANGED <<rmCalls, disk>>
               ELSE IF cfg.emptyOutDir # "false"
                    THEN /\ absOutFilename' = Str(ResolveOutFilename(cfg))
                         /\ rmCalls' = Append(rmCalls, ResolveOutFilename(cfg))
                         /\ disk' = RmRf(disk, ResolveOutFilename(cfg))
                    ELSE UNCHANGED <<absOutFilename, rmCalls, disk>>
    /\ UNCHANGED <<enabled, root, configReturn, zipCalls, logs>>
    /\ UNCHANGED <<zipVars, cfg, tree, clock, builds, createdDirs, history, defaultsVars>>

\* The bundler writes its output between configResolved and closeBundle. It
\* empties outDir first unless emptyOutDir is false, or unset with outDir
\* outside root.
BundlerEmpties(c) ==
    c.emptyOutDir = "true"
    \/ (c.emptyOutDir = "unset" /\ IsInside(c.root.segs, ResolveInDir(c)))

Bundle ==
    /\ phase = "resolved"
    /\ phase' = "bundled"
    /\ clock' = clock + 1
    /\ LET inDir == ResolveInDir(cfg)
           d1 == IF BundlerEmpties(cfg)
                 THEN Restrict(disk, {p \in DOMAIN disk : ~IsInside(inDir, p)})
                 ELSE disk
           d2 == Mkdirp(d1, inDir, clock')
           out == {inDir \o e.rel : e \in tree}
           nodeOf(p) == LET e == CHOOSE e \in tree : inDir \o e.rel = p
                        IN  [kind |-> e.kind, content |-> e.content, mtime |-> clock']
       IN  disk' = [p \in out |-> nodeOf(p)] @@ d2
    /\ UNCHANGED <<pluginVars, hookVars, zipVars, cfg, tree, builds, createdDirs, history,
                   defaultsVars>>

(***************************************************************************)
(* zipDir                                                                  *)
(***************************************************************************)
\* path.join(a, name)
PathJoin(a, name) == Norm(Append(a, name), <<>>)

\* zip.file(name, data, { dir, date }): a member replaces one of the same name
ZipFile(z, name, data, dir, date) ==
    {m \in z : m.name # name}
    \cup {[name |-> name, dir |-> dir, data |-> data, date |-> date]}

\* zip.generateNodeStream({ compression: 'DEFLATE', compressionOptions: { level: 9 } })
Serialize(z) == [t |-> "zip", v |-> "DEFLATE", z |-> z]

\* mutant: no self-reference guard
IsSelfReferenceNever(filename, outFilename) == FALSE

\* if (filename === outFilename) continue
IsSelfReference(filename, outFilename) == filename = outFilename

\* mutant: close() after the loop instead of in finally
ThrowTargetNoFinally == "rejected"

\* where an exception thrown inside try { for await ... } goes: to finally
ThrowTarget == "finally"

\* mutant: catch swallows every close error
SwallowedOnCloseAny(code) == TRUE

\* .catch(err => { if (err?.code !== 'ERR_DIR_CLOSED') throw err })
SwallowedOnClose(code) == code = "ERR_DIR_CLOSED"

\* entries.close() on a handle: a closed one rejects with ERR_DIR_CLOSED,
\* an open one closes or fails with an I/O error
CloseOutcomes(h) == IF h = "closed" THEN {"ERR_DIR_CLOSED"} ELSE {"ok", "EIO"}

\* mutant: onFile gets the entry's name
CallOnFileBasename(calls, relativeFilename) ==
    calls (+) SetToBag({<<relativeFilename[Len(relativeFilename)]>>})

\* onFile(relativeFilename)
CallOnFile(calls, relativeFilename) == calls (+) SetToBag({relativeFilename})

\* the recursive iterator yields a directory before what is in it
Ready(p) == PathDirname(p) = zIn \/ PathDirname(p) \notin pending

\* an exception leaves the for await loop; leaving it, the runtime's iterator
\* may already have closed the handle
Throw(e) ==
    /\ zpc' = ThrowTarget
    /\ err' = e
    /\ raised' = raised \cup {e}
    /\ handle' \in {handle, "closed"}

\* const entries = await fs.opendir(inDir, { recursive: true }); const zip = new JSZip()
ZipDirCall(inDir, outFilename) ==
    /\ zIn' = inDir /\ zOut' = outFilename
    /\ disk0' = disk
    /\ zip' = {} /\ closeAttempts' = 0 /\ swallowed' = {} /\ onFileCalls' = EmptyBag
    /\ skipped' = {}
    /\ \/ /\ IsDir(disk, inDir)
          /\ zpc' = "loop" /\ handle' = "open" /\ err' = "none" /\ raised' = {}
          /\ pending' = Descendants(disk, inDir)
          /\ listing' = Descendants(disk, inDir)
       \/ /\ zpc' = "rejected" /\ handle' = "none" /\ err' = "open" /\ raised' = {"open"}
          /\ pending' = {} /\ listing' = {}

\* async closeBundle()
CloseBundle ==
    /\ phase = "bundled"
    /\ phase' = "closed"
    /\ IF ~enabled \/ absOutFilename.k # "string"
       THEN UNCHANGED <<zipCalls, logs, zipVars>>
       ELSE /\ logs' = logs (+) SetToBag({Info("zipping output directory...", <<>>),
                                          Info("filename", PathRelative(root.v, absOutFilename.p))})
            /\ zipCalls' = Append(zipCalls, [inDir |-> absInDir.v, out |-> absOutFilename.p])
            /\ ZipDirCall(absInDir.v, absOutFilename.p)
    /\ UNCHANGED <<pluginVars, configReturn, rmCalls>>
    /\ UNCHANGED <<cfg, tree, disk, clock, builds, createdDirs, history, defaultsVars>>

\* part_001: async closeBundle()
CloseBundleV1 ==
    /\ phase = "bundled"
    /\ phase' = "closed"
    /\ IF ~enabled \/ absOutFilename.k # "string"
       THEN UNCHANGED <<zipCalls, zipVars>>
       ELSE /\ zipCalls' = Append(zipCalls, [inDir |-> absInDir.v, out |-> absOutFilename.p])
            /\ ZipDirCall(absInDir.v, absOutFilename.p)
    /\ UNCHANGED <<pluginVars, configReturn, rmCalls, logs>>
    /\ UNCHANGED <<cfg, tree, disk, clock, builds, createdDirs, history, defaultsVars>>

\* one iteration of for await (const entry of entries)
ZipEntry ==
    /\ zpc = "loop"
    /\ \E p \in pending :
        /\ Ready(p)
        /\ pending' = pending \ {p}
        /\ LET parentPath == PathDirname(p)
               filename == PathResolve(Abs(parentPath), Rel(<<p[Len(p)]>>), Rel(<<>>))
               relativeFilename == PathRelative(zIn, filename)
               node == disk[p]
           IN  IF IsSelfReference(filename, zOut)
               THEN /\ skipped' = skipped \cup {p}
                    /\ UNCHANGED <<zpc, err, raised, handle, zip, onFileCalls, logs>>
               ELSE IF node.kind = "dir"
               THEN /\ \/ /\ zip' = ZipFile(zip, relativeFilename, NullContent, TRUE, node.mtime)
                          /\ UNCHANGED <<zpc, err, raised, handle>>
                       \/ Throw("stat") /\ UNCHANGED zip
                    /\ UNCHANGED <<skipped, onFileCalls, logs>>
               ELSE IF node.kind = "file"
               THEN /\ \/ /\ onFileCalls' = CallOnFile(onFileCalls, relativeFilename)
                          /\ logs' = logs (+) SetToBag({Info("file", relativeFilename)})
                          /\ zip' = ZipFile(zip, relativeFilename, node.content, FALSE, node.mtime)
                          /\ UNCHANGED <<zpc, err, raised, handle>>
                       \/ /\ \E e \in {"stat", "read"} : Throw(e)
                          /\ UNCHANGED <<zip, onFileCalls, logs>>
                       \/ /\ onFileCalls' = CallOnFile(onFileCalls, relativeFilename)
                          /\ Throw("callback")
                          /\ UNCHANGED <<zip, logs>>
                    /\ UNCHANGED skipped
               ELSE UNCHANGED <<zpc, err, raised, handle, zip, onFileCalls, logs, skipped>>
    /\ UNCHANGED <<zIn, zOut, listing, closeAttempts, swallowed, disk0>>
    /\ UNCHANGED <<pluginVars, configReturn, rmCalls, zipCalls, envVars, defaultsVars>>

\* part_001: one iteration of for await (const entry of entries)
ZipEntryV1 ==
    /\ zpc = "loop"
    /\ \E p \in pending :
        /\ Ready(p)
        /\ pending' = pending \ {p}
        /\ LET parentPath == PathDirname(p)
               filename == PathJoin(parentPath, p[Len(p)])
               node == disk[p]
           IN  IF node.kind = "dir"
               THEN \/ /\ zip' = ZipFile(zip, PathRelative(zIn, filename), NullContent, TRUE,
                                         node.mtime)
                       /\ UNCHANGED <<zpc, err, raised, handle>>
                    \/ Throw("stat") /\ UNCHANGED zip
               ELSE IF node.kind = "file"
               THEN \/ /\ zip' = ZipFile(zip, PathRelative(zIn, filename), node.content, FALSE,
                                         node.mtime)
                       /\ UNCHANGED <<zpc, err, raised, handle>>
                    \/ /\ \E e \in {"stat", "read"} : Throw(e)
                       /\ UNCHANGED zip
               ELSE UNCHANGED <<zpc, err, raised, handle, zip>>
    /\ UNCHANGED <<zIn, zOut, listing, closeAttempts, swallowed, disk0, onFileCalls, skipped>>
    /\ UNCHANGED <<pluginVars, hookVars, envVars, defaultsVars>>

\* the iterator is exhausted: the loop ends, and the runtime's iterator may
\* already have closed the handle
ZipLoopEnd ==
    /\ zpc = "loop"
    /\ pending = {}
    /\ zpc' = "finally"
    /\ handle' \in {handle, "closed"}
    /\ UNCHANGED <<zIn, zOut, pending, listing, zip, closeAttempts, err, raised, swallowed,
                   onFileCalls, skipped, disk0>>
    /\ UNCHANGED <<pluginVars, hookVars, envVars, defaultsVars>>

\* finally { await entries.close().catch(...) }
ZipFinally ==
    /\ zpc = "finally"
    /\ closeAttempts' = closeAttempts + 1
    /\ handle' = "closed"
    /\ \E code \in CloseOutcomes(handle) :
        IF code = "ok"
        THEN /\ zpc' = IF err = "none" THEN "write" ELSE "rejected"
             /\ UNCHANGED <<err, raised, swallowed>>
        ELSE /\ raised' = raised \cup {code}
             /\ IF SwallowedOnClose(code)
                THEN /\ swallowed' = swallowed \cup {code}
                     /\ zpc' = IF err = "none" THEN "write" ELSE "rejected"
                     /\ UNCHANGED err
                ELSE /\ zpc' = "rejected"
                     /\ err' = "cleanup"
                     /\ UNCHANGED swallowed
    /\ UNCHANGED <<zIn, zOut, pending, listing, zip, onFileCalls, skipped, disk0>>
    /\ UNCHANGED <<pluginVars, hookVars, envVars, defaultsVars>>

\* generateNodeStream; await fs.mkdir(dirname, { recursive: true }); await fs.writeFile
ZipWrite ==
    /\ zpc = "write"
    /\ clock' = clock + 1
    /\ LET dir == PathDirname(zOut)
           made == Mkdirp(disk, dir, clock')
       IN  \/ /\ disk' = WriteFileAt(made, zOut, Serialize(zip), clock')
              /\ createdDirs' = createdDirs \cup MissingDirs(disk, dir)
              /\ history' = Append(history, zip)
              /\ zpc' = "done"
              /\ UNCHANGED <<err, raised>>
           \/ /\ zpc' = "rejected" /\ err' = "mkdir" /\ raised' = raised \cup {"mkdir"}
              /\ UNCHANGED <<disk, createdDirs, history>>
           \/ /\ zpc' = "rejected" /\ err' = "write" /\ raised' = raised \cup {"write"}
              /\ createdDirs' = createdDirs \cup MissingDirs(disk, dir)
              /\ disk' \in {made, WriteFileAt(made, zOut, Partial, clock')}
              /\ UNCHANGED history
    /\ UNCHANGED <<zIn, zOut, pending, listing, zip, handle, closeAttempts, swallowed,
                   onFileCalls, skipped, disk0>>
    /\ UNCHANGED <<pluginVars, hookVars, cfg, tree, builds, phase, defaultsVars>>

Settled == zpc \in {"idle", "done", "rejected"}

\* the next build: a new plugin instance over the same filesystem
NextBuild ==
    /\ phase = "closed"
    /\ Settled
    /\ builds < MaxBuilds
    /\ builds' = builds + 1
    /\ phase' = "new"
    /\ enabled' = TRUE /\ root' = NoneOf(<<>>) /\ absInDir' = NoneOf(<<>>)
    /\ absOutFilename' = Undefined
    /\ configReturn' = NoneOf(<<>>) /\ rmCalls' = <<>> /\ zipCalls' = <<>>
    /\ logs' = EmptyBag
    /\ zpc' = "idle" /\ zIn' = <<>> /\ zOut' = <<>> /\ pending' = {} /\ listing' = {}
    /\ zip' = {} /\ handle' = "none" /\ closeAttempts' = 0 /\ err' = "none"
    /\ raised' = {} /\ swallowed' = {} /\ onFileCalls' = EmptyBag /\ skipped' = {}
    /\ disk0' = << >>
    /\ UNCHANGED <<cfg, tree, disk, clock, createdDirs, history, defaultsVars>>

Next ==
    \/ Config
    \/ ConfigResolved
    \/ Bundle
    \/ CloseBundle
    \/ ZipEntry
    \/ ZipLoopEnd
    \/ ZipFinally
    \/ ZipWrite
    \/ NextBuild

Spec == Init /\ [][Next]_vars

\* the plugin of part_001
NextV1 ==
    \/ Config
    \/ ConfigResolvedV1
    \/ Bundle
    \/ CloseBundleV1
    \/ ZipEntryV1
    \/ ZipLoopEnd
    \/ ZipFinally
    \/ ZipWrite
    \/ NextBuild

SpecV1 == Init /\ [][NextV1]_vars

(***************************************************************************)
(* getConfigDefaults on its own: every combination of set and unset        *)
(* fields, and the bundler applying what was returned.                     *)
(***************************************************************************)
DemoConfig ==
    [outFilename |-> [k |-> "string", p |-> Rel(<< <<"foo", "zip">> >>)],
     build |-> [k |-> "obj", lib |-> OnlyEntry(Some("src/index.ts"))],
     root |-> RootPath,
     outDir |-> Rel(<< DotDot, <<"dist">>, <<"lambda">> >>),
     emptyOutDir |-> "false"]

InitDefaults ==
    /\ gLib \in [entry : EntryOptions \ {NoneOf(""), Some("")},
                 formats : FormatsOptions, fileName : FileNameOptions]
    /\ gLib0 = gLib
    /\ gRollup \in RollupOptions
    /\ gOut = NoneOf(<<>>)
    /\ gApplied = [files |-> {}, externals |-> {}]
    /\ cfg = DemoConfig /\ tree = {} /\ disk = InitialDisk(DemoConfig, {})
    /\ clock = 0 /\ builds = 1 /\ phase = "new"
    /\ createdDirs = {} /\ history = <<>>
    /\ PluginNew /\ ZipIdle

\* return await getConfigDefaults(build.lib, build.rollupOptions)
CallGetConfigDefaults ==
    /\ ~gOut.set
    /\ gOut' = Some(GetConfigDefaults(gLib, gRollup))
    /\ UNCHANGED <<gLib, gRollup, gLib0, gApplied>>
    /\ UNCHANGED <<pluginVars, hookVars, zipVars, envVars>>

\* the bundler names an output file with the returned fileName rule
ApplyFileNameRule ==
    /\ gOut.set
    /\ \E f \in Formats, n \in Names :
        gApplied' = [gApplied EXCEPT !.files =
            {[format |-> f, name |-> n,
              result |-> ApplyFileName(gOut.v.build.lib.fileName, f, n)]}]
    /\ UNCHANGED <<gLib, gRollup, gLib0, gOut>>
    /\ UNCHANGED <<pluginVars, hookVars, zipVars, envVars>>

\* the bundler asks the returned external option about an import
ApplyExternalRule ==
    /\ gOut.set
    /\ \E id \in ModuleSpecifiers :
        gApplied' = [gApplied EXCEPT !.externals =
            {[id |-> id, result |-> ApplyExternal(gOut.v.build.rollupOptions.external, id)]}]
    /\ UNCHANGED <<gLib, gRollup, gLib0, gOut>>
    /\ UNCHANGED <<pluginVars, hookVars, zipVars, envVars>>

NextDefaults ==
    \/ CallGetConfigDefaults
    \/ ApplyFileNameRule
    \/ ApplyExternalRule

SpecDefaults == InitDefaults /\ [][NextDefaults]_vars

(***************************************************************************)
(* Properties                                                              *)
(***************************************************************************)
\* an enumerated entry's path relative to the directory being archived
Suffix(p) == SubSeq(p, Len(zIn) + 1, Len(p))

\* the member an entry of kind file or dir must become
MemberOf(p) ==
    [name |-> Suffix(p),
     dir |-> disk0[p].kind = "dir",
     data |-> IF disk0[p].kind = "dir" THEN NullContent ELSE disk0[p].content,
     date |-> disk0[p].mtime]

Archivable == {p \in listing : disk0[p].kind \in {"file", "dir"}}
FileMembers == {m \in zip : ~m.dir}

\* no library entry point: build undefined, lib undefined or false, entry missing or ""
NoEntryConfigured ==
    \/ cfg.build.k \in {"nobuild", "undef", "false"}
    \/ ~cfg.build.lib.entry.set
    \/ cfg.build.lib.entry.v = ""

\* C1: the archive never holds a member whose path is the destination file,
\* although the destination was enumerated; every other file or directory
\* enumerated is archived as it is.
C1_NeverArchivesItself ==
    /\ \A m \in zip : zIn \o m.name # zOut
    /\ skipped \subseteq {zOut}
    /\ zpc \in {"write", "done"} =>
          /\ \A p \in Archivable \ {zOut} : MemberOf(p) \in zip
          /\ (zOut \in listing => skipped = {zOut})
    /\ zpc = "done" => disk[zOut].content = Serialize(zip)

C1_Witness ==
    /\ zpc = "done"
    /\ zOut \in listing
    /\ skipped = {zOut}
    /\ \E m \in zip : m.name = << <<"old", "zip">> >>
    /\ \E m \in zip : m.dir

\* C2 as claimed: with the destination outside the tree, every descendant is a
\* member of the archive, and the archive has no other member.
C2_EveryDescendantArchived ==
    (zpc = "done" /\ zOut \notin listing) =>
        /\ \A p \in listing : \E m \in zip : m.name = Suffix(p)
        /\ \A m \in zip : zIn \o m.name \in listing

\* C2 amended: with the destination outside the tree, the archive's members are
\* exactly the enumerated directories (without content) and regular files (with
\* their content), each once under its relative path; an entry that is neither
\* is left out.
C2_FilesAndDirsArchived ==
    (zpc \in {"write", "done"} /\ zOut \notin listing) =>
        /\ zip = {MemberOf(p) : p \in Archivable}
        /\ Cardinality(zip) = Cardinality(Archivable)
        /\ \A p \in listing \ Archivable : \A m \in zip : m.name # Suffix(p)

C2_Witness ==
    /\ zpc = "done"
    /\ zOut \notin listing
    /\ \E p \in listing : disk0[p].kind = "other" /\ Len(Suffix(p)) = 2
    /\ \E m \in zip : m.dir
    /\ \E m \in zip : ~m.dir /\ m.data = Raw("code")

\* C3: onFile is called once for each archived file, with its relative path,
\* never for a directory or the skipped destination; when zipDir has finished
\* the traversal, there are as many calls as file members.
C3_OnFileOncePerFile ==
    /\ \A r \in BagToSet(onFileCalls) :
          /\ CopiesIn(r, onFileCalls) = 1
          /\ zIn \o r \in listing
          /\ disk0[zIn \o r].kind = "file"
          /\ zIn \o r # zOut
    /\ \A m \in FileMembers : CopiesIn(m.name, onFileCalls) = 1
    /\ zpc \in {"write", "done"} =>
          BagCardinality(onFileCalls) = Cardinality(FileMembers)

C3_Witness ==
    /\ zpc = "done"
    /\ skipped # {}
    /\ BagCardinality(onFileCalls) = 2
    /\ CopiesIn(<< <<"b">>, <<"c", "txt">> >>, onFileCalls) = 1
    /\ \E m \in zip : m.dir

\* C4: getConfigDefaults returns every field the caller set as it is, and the
\* default for every field left unset: formats ["es"], the .mjs/.js filename
\* rule, the built-in module predicate; lib is what it was.
C4_DefaultsOnlyForUnset ==
    gOut.set =>
        LET b == gOut.v.build
            ext == ExternalOf(gRollup)
        IN  /\ gLib = gLib0
            /\ b.lib.entry = gLib0.entry
            /\ b.lib.formats = (IF gLib0.formats.set THEN gLib0.formats.v ELSE <<"es">>)
            /\ gLib0.fileName.set => b.lib.fileName = gLib0.fileName.v
            /\ ~gLib0.fileName.set =>
                  \A f \in Formats, n \in Names :
                      ApplyFileName(b.lib.fileName, f, n)
                          = IF f \in {"es", "esm", "module"} THEN <<n, "mjs">> ELSE <<n, "js">>
            /\ ext.set => b.rollupOptions.external = ext.v
            /\ ~ext.set =>
                  \A id \in ModuleSpecifiers :
                      ApplyExternal(b.rollupOptions.external, id) = (id \in BuiltinModules)

C4_Witness ==
    /\ gOut.set
    /\ ~gLib0.fileName.set
    /\ gLib0.formats.set /\ gLib0.formats.v = <<>>
    /\ ~gRollup.set
    /\ \E a \in gApplied.files : a.format = "module" /\ a.result = <<a.name, "mjs">>

\* where the archive of a configuration goes, and what it archives
ExpectedInDir ==
    IF cfg.outDir.segs = << <<"dist">> >>
    THEN << <<"pkg">>, <<"src">>, <<"dist">> >>
    ELSE << <<"pkg">>, <<"dist">>, <<"lambda">> >>

ExpectedOut ==
    IF cfg.outFilename.k = "string"
    THEN IF cfg.outFilename.p.abs THEN cfg.outFilename.p.segs
         ELSE ExpectedInDir \o cfg.outFilename.p.segs
    ELSE IF cfg.outDir.segs = << <<"dist">> >>
         THEN << <<"pkg">>, <<"src">>, <<"dist", "zip">> >>
         ELSE << <<"pkg">>, <<"dist">>, <<"lambda", "zip">> >>

\* C5: with a library entry and outFilename not false, closeBundle has invoked
\* zipDir exactly once, on the resolved outDir and the resolved destination,
\* whatever emptyOutDir is; emptyOutDir decides only whether configResolved
\* deleted the stale archive.
C5_ArchiverInvokedOnce ==
    (phase = "closed" /\ ~NoEntryConfigured /\ cfg.outFilename.k # "false") =>
        /\ zipCalls = << [inDir |-> ExpectedInDir, out |-> ExpectedOut] >>
        /\ rmCalls = (IF cfg.emptyOutDir = "false" THEN <<>> ELSE <<ExpectedOut>>)

C7_DisabledNeverArchives ==
    cfg.outFilename.k = "false" =>
        /\ zipCalls = <<>>
        /\ rmCalls = <<>>
        /\ zpc = "idle"
        /\ history = <<>>
        /\ \A p \in DOMAIN disk : disk[p].content.t \notin {"zip", "partial"}
        /\ (phase # "new" /\ ~NoEntryConfigured) =>
              /\ configReturn.set
              /\ configReturn.v.build.lib.formats = <<"es">>
              /\ configReturn.v.build.lib.fileName = DefaultFileNameRule
              /\ configReturn.v.build.rollupOptions.external = IsBuiltinPredicate

C7_Witness ==
    /\ cfg.outFilename.k = "false"
    /\ phase = "closed"
    /\ builds = MaxBuilds
    /\ configReturn.set
    /\ cfg.emptyOutDir = "true"

\* C8: once the directory handle is open, zipDir does not serialize, write,
\* return or reject before entries.close() has been called and the handle is
\* closed.
C8_HandleReleased ==
    /\ (zpc \in {"write", "done", "rejected"} /\ handle # "none") =>
          (closeAttempts >= 1 /\ handle = "closed")
    /\ zpc \in {"write", "done"} => (closeAttempts = 1 /\ handle = "closed")
    /\ zpc \in {"loop", "finally"} => (handle # "none" /\ closeAttempts = 0)
    /\ (zpc # "idle" /\ disk # disk0) => handle = "closed"
    /\ handle = "none" => zpc \in {"idle", "rejected"}

C8_Witness ==
    /\ zpc = "rejected"
    /\ err \in {"stat", "read", "callback"}
    /\ closeAttempts = 1
    /\ handle = "closed"
    /\ swallowed = {}

\* C9: a failed opendir, stat, readFile or a close failure other than
\* ERR_DIR_CLOSED ends zipDir in rejection, with the filesystem as it was when
\* zipDir was called; ERR_DIR_CLOSED from close is the only error swallowed,
\* also after a traversal without error.
C9_ErrorsRejectWithoutWriting ==
    /\ swallowed \subseteq {"ERR_DIR_CLOSED"}
    /\ raised \cap {"open", "stat", "read", "callback", "EIO"} # {} =>
          zpc \in {"finally", "rejected"}
    /\ (zpc = "rejected" /\ err \in {"open", "stat", "read", "cleanup"}) => disk = disk0
    /\ zpc = "rejected" => (err # "none" /\ (raised \ swallowed) # {})
    /\ zpc \in {"write", "done"} => (err = "none" /\ raised \subseteq {"ERR_DIR_CLOSED"})
    /\ ("EIO" \in raised /\ zpc = "rejected") => err = "cleanup"

C9_Witness ==
    /\ zpc = "rejected"
    /\ err = "read"
    /\ swallowed = {"ERR_DIR_CLOSED"}
    /\ zip # {}
    /\ Exists(disk, zOut)

\* members compared by path, kind and content
Strip(z) == {[name |-> m.name, dir |-> m.dir, data |-> m.data] : m \in z}
SameMembers(a, b) == Strip(a) = Strip(b)

\* C10 as claimed: any two archives written one after the other have the same
\* members.
C10_Idempotent ==
    \A i \in 1..(Len(history) - 1) : SameMembers(history[i], history[i + 1])

\* C10 amended: two archives written one after the other have the same members
\* provided zipDir's mkdir did not create a directory inside the directory
\* being archived.
C10_IdempotentUnlessDirCreated ==
    (\A d \in createdDirs : ~IsInside(ResolveInDir(cfg), d)) =>
        \A i \in 1..(Len(history) - 1) : SameMembers(history[i], history[i + 1])

C10_Witness ==
    /\ Len(history) = 2
    /\ zpc = "done"
    /\ skipped = {zOut}
    /\ cfg.emptyOutDir = "false"
    /\ history[1] # {}
    /\ \A d \in createdDirs : ~IsInside(ResolveInDir(cfg), d)

====
